---- MODULE Spec2Model ----
(***************************************************************************)
(* Beat-Tube: the onset analyser (OnsetByAverage) and the scene registry   *)
(* (SceneManager).                                                         *)
(*                                                                         *)
(* JavaScript numbers are modelled as exact rationals extended with NaN    *)
(* and the two infinities; rounding of finite results is not modelled.     *)
(***************************************************************************)
EXTENDS Integers, Sequences, FiniteSets, TLC

(***************************************************************************)
(* Bounds of the model.                                                    *)
(***************************************************************************)
\* number of frequency bins of the modelled analyser node
NumBins == 2
\* number of update() calls explored
MaxFrames == 5
\* number of scenes that can be registered
MaxScenes == 3
\* number of frames drawn with one analyser by the frame driver
MaxDraws == 1
\* number of audioInputChange calls explored
MaxInputs == 2
\* number of file and screen-share acquisitions started
MaxRequests == 1
\* the time the scene clocks are followed for, in ticks
MaxTicks == 8
\* number of arbitrary frames before the input becomes steady
MaxLeadIn == 2

(***************************************************************************)
(* JavaScript numbers.                                                     *)
(***************************************************************************)
RECURSIVE GCD(_, _)
GCD(a, b) == IF b = 0 THEN a ELSE GCD(b, a % b)

Abs(x) == IF x < 0 THEN -x ELSE x

Fin(n, d) ==
    LET s == IF d < 0 THEN -1 ELSE 1
        g == GCD(Abs(n), Abs(d))
    IN  [k |-> "fin", n |-> (s * n) \div g, d |-> (s * d) \div g]

NaN == [k |-> "nan", n |-> 0, d |-> 1]

PosInf == [k |-> "inf", n |-> 1, d |-> 1]

NegInf == [k |-> "inf", n |-> -1, d |-> 1]

Num(i) == Fin(i, 1)

IsNaN(a) == a.k = "nan"

IsFinite(a) == a.k = "fin"

Sign(a) == IF a.n > 0 THEN 1 ELSE IF a.n < 0 THEN -1 ELSE 0

InfOfSign(s) == IF s < 0 THEN NegInf ELSE PosInf

\* a + b
JAdd(a, b) ==
    IF IsNaN(a) \/ IsNaN(b) THEN NaN
    ELSE IF IsFinite(a) /\ IsFinite(b)
         THEN LET g == GCD(a.d, b.d)
              IN  Fin(a.n * (b.d \div g) + b.n * (a.d \div g), (a.d \div g) * b.d)
    ELSE IF IsFinite(a) THEN b
    ELSE IF IsFinite(b) THEN a
    ELSE IF Sign(a) = Sign(b) THEN a ELSE NaN

JNeg(a) == IF IsNaN(a) THEN NaN ELSE [a EXCEPT !.n = -a.n]

\* a - b
JSub(a, b) == JAdd(a, JNeg(b))

\* a * b
JMul(a, b) ==
    IF IsNaN(a) \/ IsNaN(b) THEN NaN
    ELSE IF IsFinite(a) /\ IsFinite(b)
         THEN LET g == GCD(Abs(a.n), b.d)
                  h == GCD(Abs(b.n), a.d)
              IN  IF a.n = 0 \/ b.n = 0 THEN Num(0)
                  ELSE Fin((a.n \div g) * (b.n \div h), (a.d \div h) * (b.d \div g))
    ELSE IF Sign(a) = 0 \/ Sign(b) = 0 THEN NaN
    ELSE InfOfSign(Sign(a) * Sign(b))

\* a / b (zeros are positive zeros: no negative value is ever divided)
JDiv(a, b) ==
    IF IsNaN(a) \/ IsNaN(b) THEN NaN
    ELSE IF IsFinite(a) /\ IsFinite(b)
         THEN IF b.n = 0
              THEN IF a.n = 0 THEN NaN ELSE InfOfSign(Sign(a))
              ELSE JMul(a, Fin(b.d, b.n))
    ELSE IF IsFinite(a) THEN Num(0)
    ELSE IF IsFinite(b) THEN InfOfSign(Sign(a) * (IF Sign(b) < 0 THEN -1 ELSE 1))
    ELSE NaN

\* a < b
JLess(a, b) ==
    IF IsNaN(a) \/ IsNaN(b) THEN FALSE
    ELSE IF IsFinite(a) /\ IsFinite(b)
         THEN LET g == GCD(a.d, b.d)
              IN  a.n * (b.d \div g) < b.n * (a.d \div g)
    ELSE IF IsFinite(a) THEN Sign(b) > 0
    ELSE IF IsFinite(b) THEN Sign(a) < 0
    ELSE Sign(a) < Sign(b)

\* a > b
JGreater(a, b) == JLess(b, a)

\* a >= b
JGeq(a, b) ==
    IF IsNaN(a) \/ IsNaN(b) THEN FALSE ELSE ~JLess(a, b)

\* a <= b
JLeq(a, b) == JGeq(b, a)

\* a === b
JStrictEq(a, b) == ~IsNaN(a) /\ ~IsNaN(b) /\ a = b

\* a % b for integer operands (the remainder takes the sign of the dividend)
JMod(a, b) ==
    IF IsNaN(a) \/ IsNaN(b) THEN NaN
    ELSE IF ~IsFinite(a) THEN NaN
    ELSE IF ~IsFinite(b) THEN a
    ELSE IF b.n = 0 THEN NaN
    ELSE IF a.n >= 0 THEN Num(a.n % Abs(b.n))
    ELSE Num(-((-a.n) % Abs(b.n)))

IsInteger(a) == IsFinite(a) /\ a.d = 1


(***************************************************************************)
(* State.                                                                  *)
(***************************************************************************)
VARIABLES
    onset,          \* OnsetByAverage.onset: the OnsetResult handed to the scenes
    threshold,      \* OnsetByAverage.threshold
    peaking,        \* OnsetByAverage.peaking
    prevFlux,       \* OnsetByAverage.prevFlux: the sliding window
    curSpectrum,    \* OnsetByAverage.curSpectrum: the byte buffer of the snapshot
    log,            \* one record per update() call: flux fed, branch taken, event returned
    steady,         \* 0 until the input repeats one snapshot frame after frame, then the
                    \* number of such frames, counted 1, 2, 1, 2, ...
    scenes,         \* SceneManager.scenes
    currentIndex,   \* SceneManager.currentIndex
    onSceneChange,  \* SceneManager.onSceneChange: TRUE when a listener is set
    lastOp,         \* the last SceneManager method called, with its argument
    calls,          \* the calls the last SceneManager method made, in order
    disposed,       \* the scene instances dispose() has been called on
    curSource,      \* the driver's curSource: the attached source node, 0 when unset
    animationFrame, \* the driver's animationFrame flag
    animationLoop,  \* the analyser of the callback given to renderer.setAnimationLoop, 0 for null
    edges,          \* the connections of the audio graph: <<source, node>>, node 0 the destination
    numAnalysers,   \* the OnsetByAverage instances constructed so far
    overlay,        \* overlay.style.display
    pending,        \* the acquisitions in flight: [source, kind]
    numRequests,    \* the acquisitions started so far
    steps,          \* what the last driver handler did, in order
    frame,          \* the calls of the last draw(), in order
    now,            \* performance.now(), in ticks
    frameClock,     \* the Clock of the driver
    anim,           \* the animation state of the scene that is updated
    lastEventAt,    \* when update() last got audio.event = true, -1 for never
    lastChangeAt,   \* when update() last changed the debounced state, -1 for never
    lastAudio       \* the OnsetResult the last update() of the scene was called with

varsOnset == <<onset, threshold, peaking, prevFlux, curSpectrum, log, steady>>

varsScene == <<scenes, currentIndex, onSceneChange, lastOp, calls, disposed>>

varsDriver == <<curSource, animationFrame, animationLoop, edges, numAnalysers,
                overlay, pending, numRequests, steps, frame>>

varsAnim == <<now, frameClock, anim, lastEventAt, lastChangeAt, lastAudio>>

vars == <<onset, threshold, peaking, prevFlux, curSpectrum, log, steady,
          scenes, currentIndex, onSceneChange, lastOp, calls, disposed,
          curSource, animationFrame, animationLoop, edges, numAnalysers,
          overlay, pending, numRequests, steps, frame,
          now, frameClock, anim, lastEventAt, lastChangeAt, lastAudio>>

(***************************************************************************)
(* OnsetByAverage.                                                         *)
(***************************************************************************)
\* analyser.frequencyBinCount (fftSize / 2 in the browser), scaled down
frequencyBinCount == NumBins

\* the floor of the adaptive threshold, 1.025
ThresholdFloor == Fin(41, 40)

\* the length of the window, new Array(4)
WindowSize == 4

\* the byte snapshots getByteFrequencyData can leave in curSpectrum:
\* the lowest k bins at full scale, the others silent
Snapshots ==
    { [i \in 1..frequencyBinCount |-> IF i <= k THEN 255 ELSE 0] :
        k \in 0..frequencyBinCount }

\* the values of clock.getDelta(): no time elapsed, a slow frame, a long stall
DeltaTimes == { Num(0), Fin(3, 4), Num(1500) }

\* curSpectrum[0] !== Infinity && curSpectrum[0] !== -Infinity
SnapshotValid(spectrum) ==
    /\ ~JStrictEq(Num(spectrum[1]), PosInf)
    /\ ~JStrictEq(Num(spectrum[1]), NegInf)

\* flux = 0; for (band of curSpectrum) flux += band / 255
RECURSIVE AccumulateFlux(_, _)
AccumulateFlux(spectrum, i) ==
    IF i = 0 THEN Num(0)
    ELSE JAdd(AccumulateFlux(spectrum, i - 1), JDiv(Num(spectrum[i]), Num(255)))

\* SpectrumFlux without the division by the number of bins
SpectrumFluxNoAverage(spectrum) == AccumulateFlux(spectrum, Len(spectrum))

\* ... flux /= frequencyBinCount
SpectrumFlux(spectrum) ==
    JDiv(AccumulateFlux(spectrum, Len(spectrum)), Num(frequencyBinCount))

\* PushFlux without the shift
PushFluxNoShift(window, flux) == Append(window, flux)

\* prevFlux.push(flux); prevFlux.shift()
PushFlux(window, flux) == Tail(Append(window, flux))

\* totalMag = 0; for (magnitude of prevFlux) totalMag += magnitude
RECURSIVE TotalMag(_, _)
TotalMag(window, i) ==
    IF i = 0 THEN Num(0) ELSE JAdd(TotalMag(window, i - 1), window[i])

\* meanFlux = totalMag / prevFlux.length
MeanFlux(window) == JDiv(TotalMag(window, Len(window)), Num(Len(window)))

\* threshold -= (time * threshold) / (flux / meanFlux) / 1.5;
\* if (threshold < 1.025) threshold = 1.025
Decay(thr, flux, meanFlux, time) ==
    LET lowered == JSub(thr, JDiv(JDiv(JMul(time, thr), JDiv(flux, meanFlux)),
                                  Fin(3, 2)))
    IN  IF JLess(lowered, ThresholdFloor) THEN ThresholdFloor ELSE lowered

\* Decide with an else branch that does not clear peaking
DecideKeepsPeaking(event, thr, pk, flux, meanFlux, time) ==
    IF JGreater(flux, JMul(meanFlux, thr))
    THEN [event     |-> event,
          peaking   |-> TRUE,
          threshold |-> Decay(JDiv(flux, meanFlux), flux, meanFlux, time),
          branch    |-> "above"]
    ELSE [event     |-> pk,
          peaking   |-> pk,
          threshold |-> Decay(thr, flux, meanFlux, time),
          branch    |-> "below"]

\* the "is event" block of update(), entered when meanFlux > 0
Decide(event, thr, pk, flux, meanFlux, time) ==
    IF JGreater(flux, JMul(meanFlux, thr))
    THEN [event     |-> event,
          peaking   |-> TRUE,
          threshold |-> Decay(JDiv(flux, meanFlux), flux, meanFlux, time),
          branch    |-> "above"]
    ELSE [event     |-> pk,
          peaking   |-> FALSE,
          threshold |-> Decay(thr, flux, meanFlux, time),
          branch    |-> "below"]

\* UpdateResult without the guard "if (meanFlux > 0)"
UpdateResultNoGuard(o, thr, pk, window, spectrum, time) ==
    IF ~SnapshotValid(spectrum)
    THEN [onset |-> o, threshold |-> thr, peaking |-> pk, prevFlux |-> window,
          branch |-> "skipped"]
    ELSE LET flux == SpectrumFlux(spectrum)
             w    == PushFlux(window, flux)
             mean == MeanFlux(w)
             d    == Decide(o.event, thr, pk, flux, mean, time)
         IN  [onset |-> [flux |-> flux, meanFlux |-> mean, event |-> d.event],
              threshold |-> d.threshold, peaking |-> d.peaking,
              prevFlux |-> w,
              branch |-> IF JGreater(mean, Num(0)) THEN d.branch ELSE "silent"]

\* update(time), after getByteFrequencyData has filled the buffer with spectrum
UpdateResult(o, thr, pk, window, spectrum, time) ==
    IF ~SnapshotValid(spectrum)
    THEN [onset |-> o, threshold |-> thr, peaking |-> pk, prevFlux |-> window,
          branch |-> "skipped"]
    ELSE LET flux == SpectrumFlux(spectrum)
             w    == PushFlux(window, flux)
             mean == MeanFlux(w)
         IN  IF ~JGreater(mean, Num(0))
             THEN [onset |-> [flux |-> flux, meanFlux |-> mean, event |-> o.event],
                   threshold |-> thr, peaking |-> pk, prevFlux |-> w,
                   branch |-> "silent"]
             ELSE LET d == Decide(o.event, thr, pk, flux, mean, time)
                  IN  [onset |-> [flux |-> flux, meanFlux |-> mean, event |-> d.event],
                       threshold |-> d.threshold, peaking |-> d.peaking,
                       prevFlux |-> w, branch |-> d.branch]

InitOnset ==
    /\ onset = [flux |-> Num(0), meanFlux |-> Num(0), event |-> FALSE]
    /\ threshold = ThresholdFloor
    /\ peaking = FALSE
    /\ prevFlux = [i \in 1..WindowSize |-> Num(0)]
    /\ curSpectrum = [i \in 1..frequencyBinCount |-> 0]
    /\ log = << >>
    /\ steady = 0

\* one frame: analyser.update(delta)
Update ==
    /\ Len(log) < MaxFrames
    /\ steady = 0
    /\ \E spectrum \in Snapshots, time \in DeltaTimes :
         LET r == UpdateResult(onset, threshold, peaking, prevFlux, spectrum, time)
         IN  /\ curSpectrum' = spectrum
             /\ onset' = r.onset
             /\ threshold' = r.threshold
             /\ peaking' = r.peaking
             /\ prevFlux' = r.prevFlux
             /\ log' = Append(log, [flux |-> r.onset.flux, branch |-> r.branch,
                                    event |-> r.onset.event])
             /\ steady' = steady
    /\ UNCHANGED <<varsScene, varsDriver, varsAnim>>

\* the snapshots with a positive flux
LoudSnapshots == { s \in Snapshots : JGreater(SpectrumFlux(s), Num(0)) }

\* the values of clock.getDelta() greater than 0
PositiveDeltaTimes == { t \in DeltaTimes : JGreater(t, Num(0)) }

\* the count of steady frames after one more
NextSteady(n) == IF n = 1 THEN 2 ELSE 1

\* one frame of a steady input: analyser.update(delta) with delta > 0 and the
\* snapshot of the frame before (any snapshot with a positive flux on the
\* first steady frame); the log covers the frames before the steady ones
SteadyUpdate ==
    /\ \E spectrum \in LoudSnapshots, time \in PositiveDeltaTimes :
         LET r == UpdateResult(onset, threshold, peaking, prevFlux, spectrum, time)
         IN  /\ steady # 0 => spectrum = curSpectrum
             /\ curSpectrum' = spectrum
             /\ onset' = r.onset
             /\ threshold' = r.threshold
             /\ peaking' = r.peaking
             /\ prevFlux' = r.prevFlux
             /\ log' = log
             /\ steady' = NextSteady(steady)
    /\ UNCHANGED <<varsScene, varsDriver, varsAnim>>

(***************************************************************************)
(* SceneManager.  A scene instance is named by a positive integer; 0 is    *)
(* undefined.  Indices are JavaScript numbers.                             *)
(***************************************************************************)
Undefined == 0

\* the arguments setScene is called with directly: every integer around the range
SceneArgs == { Num(i) : i \in (0 - 1)..(MaxScenes + 1) }

\* scenes[index]
ElementAt(seq, index) ==
    IF IsInteger(index) /\ index.n >= 0 /\ index.n < Len(seq)
    THEN seq[index.n + 1]
    ELSE Undefined

\* get current(): scenes[currentIndex]
Current(seq, cur) == ElementAt(seq, cur)

\* get count(): scenes.length
Count(seq) == Len(seq)

Call(fn, scene, index, total) ==
    [fn |-> fn, scene |-> scene, index |-> index, total |-> total]

\* x?.dispose() and x?.resize(): no call when x is undefined
OptionalCall(fn, scene) ==
    IF scene = Undefined THEN << >> ELSE << Call(fn, scene, Num(0), 0) >>

\* onSceneChange?.(index, scenes.length)
Notify(listener, index, total) ==
    IF listener THEN << Call("notify", Undefined, index, total) >> ELSE << >>

\* SetSceneReturns with the upper bound off by one
SetSceneReturnsOffByOne(seq, cur, index) ==
    \/ JLess(index, Num(0))
    \/ JGreater(index, Num(Len(seq)))
    \/ JStrictEq(index, cur)

\* the guards of setScene: TRUE when setScene returns early
SetSceneReturns(seq, cur, index) ==
    \/ JLess(index, Num(0))
    \/ JGeq(index, Num(Len(seq)))
    \/ JStrictEq(index, cur)

\* SetSceneSwitch with dispose() called after the index is assigned
SetSceneSwitchDisposeLate(seq, cur, listener, index) ==
    [currentIndex |-> index,
     calls |-> OptionalCall("dispose", Current(seq, index))
               \o OptionalCall("resize", Current(seq, index))
               \o Notify(listener, index, Len(seq))]

\* SetSceneSwitch with the listener notified before the incoming scene is resized
SetSceneSwitchNotifyEarly(seq, cur, listener, index) ==
    [currentIndex |-> index,
     calls |-> OptionalCall("dispose", Current(seq, cur))
               \o Notify(listener, index, Len(seq))
               \o OptionalCall("resize", Current(seq, index))]

\* the body of setScene after the guards: the new index and the calls made
SetSceneSwitch(seq, cur, listener, index) ==
    [currentIndex |-> index,
     calls |-> OptionalCall("dispose", Current(seq, cur))
               \o OptionalCall("resize", Current(seq, index))
               \o Notify(listener, index, Len(seq))]

\* setScene(index)
SetSceneResult(seq, cur, listener, index) ==
    IF SetSceneReturns(seq, cur, index)
    THEN [currentIndex |-> cur, calls |-> << >>]
    ELSE SetSceneSwitch(seq, cur, listener, index)

\* NextIndex without the wrap
NextIndexNoWrap(cur, n) == JAdd(cur, Num(1))

\* (currentIndex + 1) % scenes.length
NextIndex(cur, n) == JMod(JAdd(cur, Num(1)), Num(n))

\* (currentIndex - 1 + scenes.length) % scenes.length
PrevIndex(cur, n) == JMod(JAdd(JSub(cur, Num(1)), Num(n)), Num(n))

InitScene ==
    /\ scenes = << >>
    /\ currentIndex = Num(0)
    /\ onSceneChange = FALSE
    /\ lastOp = [op |-> "new", arg |-> Num(0)]
    /\ calls = << >>
    /\ disposed = {}

\* Register making the scene it adds the current one
RegisterActivates ==
    /\ Len(scenes) < MaxScenes
    /\ scenes' = Append(scenes, Len(scenes) + 1)
    /\ currentIndex' = Num(Len(scenes))
    /\ lastOp' = [op |-> "register", arg |-> Num(0)]
    /\ calls' = << >>
    /\ UNCHANGED <<onSceneChange, disposed>>
    /\ UNCHANGED <<varsOnset, varsDriver, varsAnim>>

\* register(scene) with a newly constructed scene
Register ==
    /\ Len(scenes) < MaxScenes
    /\ scenes' = Append(scenes, Len(scenes) + 1)
    /\ lastOp' = [op |-> "register", arg |-> Num(0)]
    /\ calls' = << >>
    /\ UNCHANGED <<currentIndex, onSceneChange, disposed>>
    /\ UNCHANGED <<varsOnset, varsDriver, varsAnim>>

\* setOnSceneChange(callback)
SetOnSceneChange ==
    /\ onSceneChange' = TRUE
    /\ lastOp' = [op |-> "setOnSceneChange", arg |-> Num(0)]
    /\ calls' = << >>
    /\ UNCHANGED <<scenes, currentIndex, disposed>>
    /\ UNCHANGED <<varsOnset, varsDriver, varsAnim>>

\* the scenes a sequence of calls disposes
DisposedBy(cs) == { cs[i].scene : i \in { j \in 1..Len(cs) : cs[j].fn = "dispose" } }

DoSetScene(op, index) ==
    LET r == SetSceneResult(scenes, currentIndex, onSceneChange, index)
    IN  /\ currentIndex' = r.currentIndex
        /\ calls' = r.calls
        /\ disposed' = disposed \cup DisposedBy(r.calls)
        /\ lastOp' = [op |-> op, arg |-> index]
        /\ UNCHANGED <<scenes, onSceneChange>>
        /\ UNCHANGED <<varsOnset, varsDriver, varsAnim>>

\* setScene(index)
SetScene == \E index \in SceneArgs : DoSetScene("setScene", index)

\* next()
NextScene == DoSetScene("next", NextIndex(currentIndex, Len(scenes)))

\* prev()
PrevScene == DoSetScene("prev", PrevIndex(currentIndex, Len(scenes)))

\* update, render and resize of SceneManager: current?.fn()
Forward(fn, seq, cur) == OptionalCall(fn, Current(seq, cur))

DoForward(fn) ==
    /\ calls' = Forward(fn, scenes, currentIndex)
    /\ lastOp' = [op |-> fn, arg |-> Num(0)]
    /\ UNCHANGED <<scenes, currentIndex, onSceneChange, disposed>>
    /\ UNCHANGED <<varsOnset, varsDriver, varsAnim>>

\* sceneManager.update(deltaTime, audio)
ManagerUpdate == DoForward("update")

\* ManagerRender with a render() that advances the scene
ManagerRenderAnimates ==
    /\ calls' = Forward("render", scenes, currentIndex)
    /\ lastOp' = [op |-> "render", arg |-> Num(0)]
    /\ anim' = [anim EXCEPT !.time = @ + 1]
    /\ UNCHANGED <<scenes, currentIndex, onSceneChange, disposed>>
    /\ UNCHANGED <<now, frameClock, lastEventAt, lastChangeAt, lastAudio>>
    /\ UNCHANGED <<varsOnset, varsDriver>>

\* sceneManager.render()
ManagerRender == DoForward("render")

\* sceneManager.resize()
ManagerResize == DoForward("resize")

\* the resize listeners every scene adds to the window in its constructor:
\* window.addEventListener('resize', () => this.resize())
RECURSIVE SceneListeners(_, _)
SceneListeners(seq, i) ==
    IF i = 0 THEN << >>
    ELSE SceneListeners(seq, i - 1) \o << Call("resize", seq[i], Num(0), 0) >>

\* a resize event of the window: the listeners in the order they were added,
\* those of the scenes first, then the one of the driver (sceneManager.resize())
WindowResize ==
    /\ calls' = SceneListeners(scenes, Len(scenes)) \o Forward("resize", scenes, currentIndex)
    /\ lastOp' = [op |-> "window.resize", arg |-> Num(0)]
    /\ UNCHANGED <<scenes, currentIndex, onSceneChange, disposed>>
    /\ UNCHANGED <<varsOnset, varsDriver, varsAnim>>

(***************************************************************************)
(* The frame driver and the audio inputs.  A source node is named by a     *)
(* positive integer, an analyser by the number of its OnsetByAverage       *)
(* instance; node 0 is the destination of the audio context.               *)
(***************************************************************************)
\* the scenes registered at startup: TunnelScene, CubeScene, TerrainScene
StartupScenes == << 1, 2, 3 >>

\* the MediaElementSource previewFile creates once and passes on every click
PreviewSource == 1

Destination == 0

AcquireKinds == { "file", "screen" }

Step(op, source, node) == [op |-> op, source |-> source, node |-> node]

\* InputChangeSteps starting the new loop without stopping the running one first
InputChangeStepsNoStop(cur, source, analyser) ==
    (IF cur # 0 /\ cur # source THEN << Step("disconnect", cur, 0) >> ELSE << >>)
    \o << Step("setAnimationLoop", 0, analyser),
          Step("connect", source, analyser) >>

\* what audioInputChange(source) does to the audio graph and the renderer, in
\* order, analyser being the OnsetByAverage it constructs
InputChangeSteps(cur, source, analyser) ==
    (IF cur # 0 /\ cur # source THEN << Step("disconnect", cur, 0) >> ELSE << >>)
    \o << Step("setAnimationLoop", 0, 0),
          Step("connect", source, analyser),
          Step("setAnimationLoop", 0, analyser) >>

\* the effect of one step on the connections and on the renderer's loop:
\* disconnect() removes every outgoing connection of the node, connect() adds
\* one (a second connect to the same node adds nothing), setAnimationLoop
\* replaces the callback
Perform(st, step) ==
    IF step.op = "disconnect"
    THEN [st EXCEPT !.edges = { e \in st.edges : e[1] # step.source }]
    ELSE IF step.op = "connect"
    THEN [st EXCEPT !.edges = st.edges \cup { << step.source, step.node >> }]
    ELSE [st EXCEPT !.loop = step.node]

RECURSIVE PerformAll(_, _, _)
PerformAll(st, ss, i) ==
    IF i > Len(ss) THEN st ELSE PerformAll(Perform(st, ss[i]), ss, i + 1)

InitDriver ==
    /\ curSource = 0
    /\ animationFrame = FALSE
    /\ animationLoop = 0
    /\ edges = {}
    /\ numAnalysers = 0
    /\ overlay = ""
    /\ pending = {}
    /\ numRequests = 0
    /\ steps = << >>
    /\ frame = << >>

\* audioInputChange(source, audioCtx), called by a handler that did before
\* on the audio graph
AudioInputChange(source, before) ==
    LET analyser == numAnalysers + 1
        ss == before \o InputChangeSteps(curSource, source, analyser)
        st == PerformAll([edges |-> edges, loop |-> animationLoop], ss, 1)
    IN  /\ numAnalysers < MaxInputs
        /\ steps' = ss
        /\ edges' = st.edges
        /\ animationLoop' = st.loop
        /\ curSource' = source
        /\ numAnalysers' = analyser
        /\ overlay' = "none"
        /\ animationFrame' = TRUE
        /\ onset' = [flux |-> Num(0), meanFlux |-> Num(0), event |-> FALSE]
        /\ threshold' = ThresholdFloor
        /\ peaking' = FALSE
        /\ prevFlux' = [i \in 1..WindowSize |-> Num(0)]
        /\ curSpectrum' = [i \in 1..frequencyBinCount |-> 0]
        /\ log' = << >>
        /\ steady' = 0
        /\ frame' = << >>

\* AudioError starting a frame loop on an analyser that has no source
AudioErrorStartsLoop ==
    /\ overlay' = "flex"
    /\ steps' = << Step("audioError", 0, 0) >>
    /\ animationLoop' = numAnalysers + 1
    /\ UNCHANGED <<curSource, animationFrame, edges, numAnalysers, frame>>
    /\ UNCHANGED varsOnset

\* audioError()
AudioError ==
    /\ overlay' = "flex"
    /\ steps' = << Step("audioError", 0, 0) >>
    /\ UNCHANGED <<curSource, animationFrame, animationLoop, edges, numAnalysers, frame>>
    /\ UNCHANGED varsOnset

\* a file is chosen and loaded, or the screen-share button is clicked: the
\* handler runs up to its await
RequestAudio ==
    /\ numRequests < MaxRequests
    /\ \E kind \in AcquireKinds :
         pending' = pending \cup { [source |-> numRequests + 2, kind |-> kind] }
    /\ numRequests' = numRequests + 1
    /\ steps' = << >>
    /\ UNCHANGED <<curSource, animationFrame, animationLoop, edges, numAnalysers,
                   overlay, frame>>
    /\ UNCHANGED <<varsOnset, varsScene, varsAnim>>

\* what a handler does to its source before it calls audioChange
BeforeChange(kind, source) ==
    IF kind = "screen" THEN << >> ELSE << Step("connect", source, Destination) >>

\* decodeAudioData or getDisplayMedia resolves: the rest of the handler
AcquireDone ==
    /\ \E p \in pending :
         /\ pending' = pending \ { p }
         /\ AudioInputChange(p.source, BeforeChange(p.kind, p.source))
    /\ UNCHANGED numRequests
    /\ UNCHANGED <<varsScene, varsAnim>>

\* decodeAudioData or getDisplayMedia rejects: the catch of the handler
AcquireFail ==
    /\ \E p \in pending : pending' = pending \ { p }
    /\ AudioError
    /\ UNCHANGED numRequests
    /\ UNCHANGED <<varsScene, varsAnim>>

\* a click on the preview button
PreviewClick ==
    /\ AudioInputChange(PreviewSource, BeforeChange("preview", PreviewSource))
    /\ UNCHANGED <<pending, numRequests>>
    /\ UNCHANGED <<varsScene, varsAnim>>

\* a click on the document
DocumentClick ==
    /\ animationFrame
    /\ overlay' = IF overlay = "none" THEN "flex" ELSE "none"
    /\ steps' = << >>
    /\ UNCHANGED <<curSource, animationFrame, animationLoop, edges, numAnalysers,
                   pending, numRequests, frame>>
    /\ UNCHANGED <<varsOnset, varsScene, varsAnim>>

FrameCall(fn, target, time, audio) ==
    [fn |-> fn, target |-> target, time |-> time, audio |-> audio]

NoAudio == [flux |-> Num(0), meanFlux |-> Num(0), event |-> FALSE]

\* current?.update(deltaTime, audio) and current?.render()
SceneCall(fn, scene, time, audio) ==
    IF scene = Undefined THEN << >> ELSE << FrameCall(fn, scene, time, audio) >>

\* DrawCalls handing the scene the result of the frame before
DrawCallsStale(analyser, delta, before, result, scene) ==
    << FrameCall("analyser.update", analyser, delta, result) >>
    \o SceneCall("update", scene, delta, before)
    \o SceneCall("render", scene, Num(0), NoAudio)

\* the calls of draw(analyser), in order; before is the analyser's result
\* object ahead of the call, result what analyser.update(delta) returns
DrawCalls(analyser, delta, before, result, scene) ==
    << FrameCall("analyser.update", analyser, delta, result) >>
    \o SceneCall("update", scene, delta, result)
    \o SceneCall("render", scene, Num(0), NoAudio)

\* clock.getDelta() in a frame of the running loop
FrameDeltas == { Fin(3, 4) }

\* the renderer calls the animation loop: draw(analyser)
Draw ==
    /\ animationLoop # 0
    /\ Len(log) < MaxDraws
    /\ \E spectrum \in Snapshots, delta \in FrameDeltas :
         LET r == UpdateResult(onset, threshold, peaking, prevFlux, spectrum, delta)
         IN  /\ curSpectrum' = spectrum
             /\ onset' = r.onset
             /\ threshold' = r.threshold
             /\ peaking' = r.peaking
             /\ prevFlux' = r.prevFlux
             /\ log' = Append(log, [flux |-> r.onset.flux, branch |-> r.branch,
                                    event |-> r.onset.event])
             /\ steady' = steady
             /\ frame' = DrawCalls(animationLoop, delta, onset, r.onset,
                                   Current(scenes, currentIndex))
    /\ calls' = Forward("update", scenes, currentIndex)
                \o Forward("render", scenes, currentIndex)
    /\ lastOp' = [op |-> "draw", arg |-> Num(0)]
    /\ steps' = << >>
    /\ UNCHANGED <<scenes, currentIndex, onSceneChange, disposed>>
    /\ UNCHANGED <<curSource, animationFrame, animationLoop, edges, numAnalysers,
                   overlay, pending, numRequests>>
    /\ UNCHANGED varsAnim

(***************************************************************************)
(* The scenes.  The registry and the driver reach a scene through the      *)
(* calls they record; this is what update() does to the state of one       *)
(* scene.  Wall-clock time is counted in ticks.                            *)
(***************************************************************************)
SceneKinds == { "tunnel", "cube", "terrain", "neon" }

\* one tick of performance.now(), in seconds
Tick == Fin(1, 20)

\* the time between two frames, in ticks
FrameGaps == { 1, 2 }

Seconds(ticks) == JMul(Num(ticks), Tick)

\* new Clock(): created stopped, started by the first reading
NewClock == [running |-> FALSE, oldTime |-> 0, elapsedTime |-> 0]

\* clock.getDelta() at time t: the value read, in ticks, and the clock after
GetDelta(c, t) ==
    IF ~c.running
    THEN [value |-> 0, clock |-> [running |-> TRUE, oldTime |-> t, elapsedTime |-> 0]]
    ELSE [value |-> t - c.oldTime,
          clock |-> [c EXCEPT !.oldTime = t, !.elapsedTime = @ + (t - c.oldTime)]]

\* clock.getElapsedTime() at time t
GetElapsedTime(c, t) ==
    LET r == GetDelta(c, t)
    IN  [value |-> r.clock.elapsedTime, clock |-> r.clock]

\* ROTATION_COOLDOWN of TunnelScene, COLOR_COOLDOWN of TerrainScene and of
\* NeonGridScene
Cooldown(kind) ==
    IF kind = "tunnel" THEN Fin(1, 10)
    ELSE IF kind = "terrain" THEN Fin(3, 20)
    ELSE Num(0)

\* COLORS.length of CubeScene, COLOR_PALETTES.length of TerrainScene and of
\* NeonGridScene
NumPalettes(kind) ==
    IF kind = "cube" THEN 8
    ELSE IF kind = "terrain" THEN 6
    ELSE IF kind = "neon" THEN 5
    ELSE 1

\* Debounce leaving the clock running when the cooldown has passed
DebounceKeepsClock(c, t, cooldown) ==
    LET r == GetElapsedTime(c, t)
    IN  IF JGreater(Seconds(r.value), cooldown)
        THEN [fires |-> TRUE, clock |-> r.clock]
        ELSE [fires |-> FALSE, clock |-> r.clock]

\* if (clock.getElapsedTime() > cooldown) { clock = new Clock(); ... }
Debounce(c, t, cooldown) ==
    LET r == GetElapsedTime(c, t)
    IN  IF JGreater(Seconds(r.value), cooldown)
        THEN [fires |-> TRUE, clock |-> NewClock]
        ELSE [fires |-> FALSE, clock |-> r.clock]

\* randColor(color), coin being Math.random() > 0.5
RandColor(color, coin) ==
    LET inc == Fin(3, 20)
    IN  IF coin /\ JLess(JAdd(color, inc), Num(1)) THEN JAdd(color, inc)
        ELSE IF JGreater(JSub(color, inc), Num(0)) THEN JSub(color, inc)
        ELSE JAdd(color, inc)

\* the flux and meanFlux a scene is updated with
AudioLevels ==
    { [flux |-> Num(0), meanFlux |-> Num(0)],
      [flux |-> Fin(1, 2), meanFlux |-> Fin(1, 4)] }

\* the OnsetResult values a scene is updated with: event is set only on a
\* frame with meanFlux > 0
AudioInputs ==
    { r \in { [flux |-> l.flux, meanFlux |-> l.meanFlux, event |-> e] :
                l \in AudioLevels, e \in BOOLEAN } :
        r.event => JGreater(r.meanFlux, Num(0)) }

\* a < b ? a : b
JMin(a, b) == IF JLess(a, b) THEN a ELSE b

\* the material colour of CubeScene, kept as the lerps that made it: a list
\* of [target, lerps], empty while the colour is COLORS[0] itself.
\* color.lerp(targetColor, CUBE.COLOR_LERP): one more step towards the target
Lerp(color) ==
    IF color = << >> THEN color
    ELSE [color EXCEPT ![Len(color)].lerps = @ + 1]

\* targetColor = COLORS[index]
Retarget(color, index) == Append(color, [target |-> index, lerps |-> 0])

\* NextPalette skipping an entry
NextPaletteSkips(p, kind) == (p + 2) % NumPalettes(kind)

\* (index + 1) % length
NextPalette(p, kind) == (p + 1) % NumPalettes(kind)

\* toTunnelSpeed(SPEED.NORMAL)
TunnelSpeed == JMul(Fin(1, 2), Num(32000))

\* TUNNEL.SEGMENTS * TUNNEL.SEGMENT_LENGTH
TotalLength == 100 * 1600

\* toRotationSpeed(x), in units of pi radians per second
ToRotationSpeed(x) == JMul(x, Num(4))

\* a scene after its constructor: dir is rotDir, palette is currentPaletteIndex
\* (currentColorIndex in CubeScene), light is the red channel of aLight.color
\* (green and blue go through randColor in the same branch), time is the sum
\* of the deltaTime values, in ticks; pos is the position on the tunnel curve,
\* offset the scroll offset, rotation is orb.rotation.z (cube.rotation.x, in
\* units of pi, in CubeScene), star the z of one star that starts at 0, color
\* the material colour of the cube; speed, scale, intensity, uFlux and
\* uMeanFlux are what the last update() derived from the audio
\* (rotationSpeed of the cube starts as SPEED.NORMAL and is assigned by
\* update() before it is read)
NewScene(kind) ==
    [kind |-> kind, dir |-> 1, palette |-> 0, light |-> Num(1), time |-> 0,
     clock |-> NewClock,
     pos |-> Num(0), offset |-> Num(0), rotation |-> Num(0), star |-> Num(0),
     color |-> << >>,
     speed |-> IF kind = "cube" THEN Fin(1, 2) ELSE Num(0),
     scale |-> Num(1),
     intensity |-> Fin(1, 2),
     uFlux |-> Num(0), uMeanFlux |-> Num(0)]

\* Derived with a scale and an intensity that approach their targets
DerivedSmoothed(a, audio) ==
    [speed |-> IF a.kind = "cube"
               THEN JAdd(ToRotationSpeed(JMul(Fin(1, 5), Fin(1, 10))),
                         ToRotationSpeed(JMul(audio.flux, Fin(1, 2))))
               ELSE IF a.kind = "tunnel" THEN JMul(TunnelSpeed, audio.flux)
               ELSE IF a.kind = "terrain"
               THEN JAdd(Num(10), JMul(audio.flux, Num(3200)))
               ELSE JAdd(Num(0), JMul(audio.flux, Num(4000))),
     scale |-> IF a.kind = "cube"
               THEN JDiv(JAdd(a.scale, JAdd(Num(1), JMul(audio.meanFlux, Fin(3, 10)))),
                         Num(2))
               ELSE a.scale,
     intensity |-> IF a.kind = "tunnel"
                   THEN JDiv(JAdd(a.intensity,
                                  JMin(JAdd(Fin(1, 10), JMul(audio.meanFlux, Num(4))),
                                       Num(1))), Num(2))
                   ELSE a.intensity,
     uFlux |-> IF a.kind \in { "terrain", "neon" } THEN audio.flux ELSE a.uFlux,
     uMeanFlux |-> IF a.kind = "terrain" THEN audio.meanFlux ELSE a.uMeanFlux]

\* what update() derives from the audio of the frame: the rotation speed of
\* the cube, movement of the tunnel, scrollSpeed of the terrain and of the
\* grid; the scale of the cube; the light intensity of the tunnel; the
\* uniforms uFlux and uMeanFlux
Derived(a, audio) ==
    [speed |-> IF a.kind = "cube"
               THEN JAdd(ToRotationSpeed(JMul(Fin(1, 5), Fin(1, 10))),
                         ToRotationSpeed(JMul(audio.flux, Fin(1, 2))))
               ELSE IF a.kind = "tunnel" THEN JMul(TunnelSpeed, audio.flux)
               ELSE IF a.kind = "terrain"
               THEN JAdd(Num(10), JMul(audio.flux, Num(3200)))
               ELSE JAdd(Num(0), JMul(audio.flux, Num(4000))),
     scale |-> IF a.kind = "cube"
               THEN JAdd(Num(1), JMul(audio.meanFlux, Fin(3, 10)))
               ELSE a.scale,
     intensity |-> IF a.kind = "tunnel"
                   THEN JMin(JAdd(Fin(1, 10), JMul(audio.meanFlux, Num(4))), Num(1))
                   ELSE a.intensity,
     uFlux |-> IF a.kind \in { "terrain", "neon" } THEN audio.flux ELSE a.uFlux,
     uMeanFlux |-> IF a.kind = "terrain" THEN audio.meanFlux ELSE a.uMeanFlux]

\* the "if (audio.event)" block of update() at time t
Beat(a, coin, t) ==
    IF a.kind = "cube"
    THEN LET p == NextPalette(a.palette, a.kind)
         IN  [a EXCEPT !.palette = p, !.color = Retarget(@, p)]
    ELSE LET d == Debounce(a.clock, t, Cooldown(a.kind))
         IN  IF a.kind = "tunnel"
             THEN [a EXCEPT !.clock = d.clock,
                            !.dir = IF d.fires THEN 0 - @ ELSE @,
                            !.light = RandColor(@, coin)]
             ELSE [a EXCEPT !.clock = d.clock,
                            !.palette = IF d.fires THEN NextPalette(@, a.kind) ELSE @]

\* the tunnel position after a step of change:
\* if (pos + change >= 1) pos = 0; pos += change
Advance(pos, change) ==
    IF JGeq(JAdd(pos, change), Num(1)) THEN change ELSE JAdd(pos, change)

\* updateStarfield: the z of a star after deltaTime dt, at scrollSpeed speed
StarZ(z, speed, dt) ==
    LET clampedDelta == JMin(dt, Fin(1, 10))
        moved == JSub(z, JMul(JMul(speed, Fin(3, 2)), clampedDelta))
    IN  IF JLess(moved, JMul(JNeg(Num(2000)), Fin(1, 2)))
        THEN JMul(Num(2000), Fin(1, 2))
        ELSE moved

\* the part of update() that moves the scene by deltaTime dt, in seconds; b is
\* the scene after the event block, v what the frame derived from the audio
Move(b, v, audio, dt) ==
    IF b.kind = "cube"
    THEN [b EXCEPT !.rotation = JAdd(@, JMul(v.speed, dt)),
                   !.color = Lerp(@)]
    ELSE IF b.kind = "tunnel"
    THEN [b EXCEPT !.pos = Advance(@, JMul(JDiv(JAdd(Num(40), v.speed),
                                                Num(TotalLength)), dt)),
                   !.rotation = JAdd(@, JMul(JMul(JMul(audio.flux, Num(2)), dt),
                                             Num(b.dir)))]
    ELSE IF b.kind = "terrain"
    THEN [b EXCEPT !.offset = JAdd(@, JMul(v.speed, dt)),
                   !.star = StarZ(@, v.speed, dt)]
    ELSE [b EXCEPT !.offset = JAdd(@, JMul(v.speed, dt))]

\* the outcomes of Math.random() < 0.5 in randColor, which only the event
\* block of TunnelScene calls
Coins(a, audio) ==
    IF a.kind = "tunnel" /\ audio.event THEN BOOLEAN ELSE { FALSE }

\* update(deltaTime, audio) of the scene at time t, deltaTime in ticks
SceneUpdateResult(a, delta, audio, coin, t) ==
    LET v == Derived(a, audio)
        b == IF audio.event THEN Beat(a, coin, t) ELSE a
        m == Move(b, v, audio, Seconds(delta))
    IN  [m EXCEPT !.time = @ + delta,
                  !.speed = v.speed, !.scale = v.scale, !.intensity = v.intensity,
                  !.uFlux = v.uFlux, !.uMeanFlux = v.uMeanFlux]

\* the state a cooldown guards
Debounced(a) == << a.dir, a.palette >>

InitAnim(kind) ==
    /\ now = 0
    /\ frameClock = NewClock
    /\ anim = NewScene(kind)
    /\ lastEventAt = 0 - 1
    /\ lastChangeAt = 0 - 1
    /\ lastAudio = [flux |-> Num(0), meanFlux |-> Num(0), event |-> FALSE]

\* a frame at a later time, seen from the scene: delta = clock.getDelta(),
\* sceneManager.update(delta, audio)
SceneUpdate ==
    /\ \E gap \in FrameGaps, audio \in AudioInputs :
      \E coin \in Coins(anim, audio) :
         LET t == now + gap
             d == GetDelta(frameClock, t)
             a == SceneUpdateResult(anim, d.value, audio, coin, t)
         IN  /\ t <= MaxTicks
             /\ Current(scenes, currentIndex) # Undefined
             /\ now' = t
             /\ frameClock' = d.clock
             /\ anim' = a
             /\ lastEventAt' = IF audio.event THEN t ELSE lastEventAt
             /\ lastChangeAt' = IF Debounced(a) # Debounced(anim) THEN t ELSE lastChangeAt
             /\ lastAudio' = audio
    /\ calls' = Forward("update", scenes, currentIndex)
    /\ lastOp' = [op |-> "update", arg |-> Num(0)]
    /\ UNCHANGED <<scenes, currentIndex, onSceneChange, disposed>>
    /\ UNCHANGED <<varsOnset, varsDriver>>

(***************************************************************************)
(* Specifications.                                                         *)
(***************************************************************************)
Init == InitOnset /\ InitScene /\ InitDriver /\ InitAnim("tunnel")

Next ==
    \/ Update
    \/ Register \/ SetOnSceneChange \/ SetScene \/ NextScene \/ PrevScene
    \/ ManagerUpdate \/ ManagerRender \/ ManagerResize \/ WindowResize
    \/ RequestAudio \/ AcquireDone \/ AcquireFail \/ PreviewClick \/ DocumentClick
    \/ Draw \/ SceneUpdate \/ SteadyUpdate

Spec == Init /\ [][Next]_vars

\* the analyser alone, driven frame by frame
NextOnset == Update

SpecOnset == Init /\ [][NextOnset]_vars

\* the analyser fed a few arbitrary frames and then a steady input; the
\* animation loop calls draw, and with it update(), on every frame
NextRelax == (Update /\ Len(log) < MaxLeadIn) \/ SteadyUpdate

\* a step that counts a steady frame; SteadyUpdate, which is enabled in every
\* state, is the only action that takes one
SteadyFrame == steady' = NextSteady(steady)

SpecRelax == Init /\ [][NextRelax]_vars /\ WF_steady(SteadyFrame)

\* the registry alone
NextRegistry ==
    \/ Register \/ SetOnSceneChange \/ SetScene \/ NextScene \/ PrevScene
    \/ ManagerUpdate \/ ManagerRender \/ ManagerResize \/ WindowResize

SpecScene == Init /\ [][NextRegistry]_vars

\* the program after startup: the scenes of main are registered
InitMain ==
    /\ InitOnset
    /\ InitDriver
    /\ InitAnim("tunnel")
    /\ scenes = StartupScenes
    /\ currentIndex = Num(0)
    /\ onSceneChange = FALSE
    /\ lastOp = [op |-> "register", arg |-> Num(0)]
    /\ calls = << >>
    /\ disposed = {}

\* the frame driver, the audio inputs and the arrow to the next scene
NextDriver ==
    \/ RequestAudio \/ AcquireDone \/ AcquireFail \/ PreviewClick
    \/ Draw \/ NextScene

SpecDriver == InitMain /\ [][NextDriver]_vars

\* one registered scene of any kind
InitOneScene ==
    /\ InitOnset
    /\ InitDriver
    /\ \E kind \in SceneKinds : InitAnim(kind)
    /\ scenes = << 1 >>
    /\ currentIndex = Num(0)
    /\ onSceneChange = FALSE
    /\ lastOp = [op |-> "register", arg |-> Num(0)]
    /\ calls = << >>
    /\ disposed = {}

\* one scene, updated, rendered and resized
NextAnim == SceneUpdate \/ ManagerRender \/ WindowResize

SpecAnim == InitOneScene /\ [][NextAnim]_vars

(***************************************************************************)
(* Properties of OnsetByAverage.                                           *)
(***************************************************************************)
Last(seq) == seq[Len(seq)]

\* the step is an update() call
Updated == log' # log

\* C1: the event flag is true for one frame per detected peak: a frame that
\* returned event = true is followed by a frame that returns event = false,
\* unless that next frame completes a new peak (it falls back below the bar
\* while the analyser was peaking).
C1_EventOneFramePerPeak ==
    [][(Updated /\ onset.event)
         => (~onset'.event \/ (peaking /\ Last(log').branch = "below"))]_vars

\* C2: while flux stays above meanFlux * threshold the update reports
\* event = false; the first frame at or below the bar after such a run reports
\* event = true; the frame after that one reports event = false.
C2_RiseThenDrop ==
    [][Updated =>
         /\ (Last(log').branch = "above" => ~onset'.event)
         /\ (/\ Len(log) >= 1
             /\ Last(log).branch = "above"
             /\ Last(log').branch # "above"
             => onset'.event)
         /\ (/\ Len(log) >= 2
             /\ log[Len(log) - 1].branch = "above"
             /\ Last(log).branch # "above"
             => ~onset'.event)]_vars

\* C3: the threshold is a number and is at least 1.025.
C3_ThresholdFloor == JGeq(threshold, ThresholdFloor)

\* C4: flux and meanFlux of the returned result lie in [0, 1].
C4_Normalized ==
    /\ JGeq(onset.flux, Num(0)) /\ JLeq(onset.flux, Num(1))
    /\ JGeq(onset.meanFlux, Num(0)) /\ JLeq(onset.meanFlux, Num(1))

\* four full-scale frames: flux and meanFlux both reach 1
C4_Witness == onset.flux = Num(1) /\ onset.meanFlux = Num(1)

\* the flux fed by the i-th of the last four updates, 0 before the first update
RecentFlux(i) ==
    LET j == Len(log) - WindowSize + i
    IN  IF j >= 1 THEN log[j].flux ELSE Num(0)

\* C5: meanFlux is the arithmetic mean of the fluxes of the last four updates,
\* the window starting as four zeros; an update older than that has no effect.
C5_MeanOfLastFour ==
    Len(log) >= 1 =>
        onset.meanFlux =
            JDiv(JAdd(JAdd(JAdd(RecentFlux(1), RecentFlux(2)), RecentFlux(3)),
                      RecentFlux(4)),
                 Num(4))

\* five updates a, b, c, d, e with a = 1 and b = c = d = e = 0: the mean is 0
C5_Witness ==
    /\ Len(log) >= 5
    /\ log[Len(log) - 4].flux = Num(1)
    /\ onset.meanFlux = Num(0)

(***************************************************************************)
(* Properties of SceneManager.                                             *)
(***************************************************************************)
ValidIndex == IsInteger(currentIndex) /\ currentIndex.n >= 0 /\ currentIndex.n < Count(scenes)

\* C7: once a scene is registered, currentIndex is an integer with
\* 0 <= currentIndex < count, so that current is a registered scene.
C7_IndexInRange == Count(scenes) >= 1 => ValidIndex

\* the index after k calls of next() on a registry of n scenes
RECURSIVE AfterNexts(_, _, _)
AfterNexts(cur, n, k) ==
    IF k = 0 THEN cur
    ELSE AfterNexts(SetSceneResult(scenes, cur, onSceneChange, NextIndex(cur, n)).currentIndex,
                    n, k - 1)

\* the index after k calls of prev() on a registry of n scenes
RECURSIVE AfterPrevs(_, _, _)
AfterPrevs(cur, n, k) ==
    IF k = 0 THEN cur
    ELSE AfterPrevs(SetSceneResult(scenes, cur, onSceneChange, PrevIndex(cur, n)).currentIndex,
                    n, k - 1)

\* C8: on a registry whose current scene is registered, next() moves
\* currentIndex to (currentIndex + 1) mod count and prev() to
\* (currentIndex - 1) mod count, and count calls of either lead back to the
\* starting index.
C8_WrapAround ==
    /\ [][(ValidIndex /\ NextScene)
            => currentIndex' = Num((currentIndex.n + 1) % Count(scenes))]_vars
    /\ [][(ValidIndex /\ PrevScene)
            => currentIndex' = Num((currentIndex.n - 1) % Count(scenes))]_vars
    /\ [](ValidIndex =>
            /\ AfterNexts(currentIndex, Count(scenes), Count(scenes)) = currentIndex
            /\ AfterPrevs(currentIndex, Count(scenes), Count(scenes)) = currentIndex)

\* next() from the last of three scenes has switched to the first
C8_Witness ==
    /\ lastOp.op = "next"
    /\ Count(scenes) = 3
    /\ currentIndex = Num(0)
    /\ Len(calls) >= 2 /\ calls[1].fn = "dispose" /\ calls[1].scene = 3

\* C9: setScene(i) with i < 0, i >= count or i = currentIndex changes nothing:
\* currentIndex is kept and no dispose(), resize() or listener call is made.
C9_SetSceneNoOp ==
    [][\A index \in SceneArgs :
         (/\ DoSetScene("setScene", index)
          /\ \/ index.n < 0
             \/ index.n >= Count(scenes)
             \/ index = currentIndex)
         => (currentIndex' = currentIndex /\ calls' = << >>)]_vars

\* setScene(count) was called on a registry with scenes and a listener
C9_Witness ==
    /\ lastOp.op = "setScene"
    /\ lastOp.arg = Num(Count(scenes))
    /\ Count(scenes) >= 1
    /\ onSceneChange
    /\ calls = << >>

DisposeCalls(cs) == SelectSeq(cs, LAMBDA c : c.fn = "dispose")

\* C10: a setScene, next or prev that changes currentIndex away from a
\* registered scene A calls dispose() once, on A, and on no other scene; the
\* incoming scene is not disposed.
C10_DisposeOutgoingOnly ==
    [][(/\ SetScene \/ NextScene \/ PrevScene
        /\ currentIndex' # currentIndex
        /\ Current(scenes, currentIndex) # Undefined)
         => /\ Len(DisposeCalls(calls')) = 1
            /\ DisposeCalls(calls')[1].scene = Current(scenes, currentIndex)
            /\ DisposeCalls(calls')[1].scene # Current(scenes', currentIndex')]_vars

\* a switch from the first scene to the third has disposed the first
C10_Witness ==
    /\ lastOp.op \in {"setScene", "next", "prev"}
    /\ currentIndex = Num(2)
    /\ Len(calls) = 3
    /\ calls[1].fn = "dispose" /\ calls[1].scene = 1
    /\ calls[2].fn = "resize" /\ calls[2].scene = 3

\* the calls that make a scene live: update(), render(), and resize(), which
\* every scene ends with a render()
LiveFns == {"update", "render", "resize"}

\* C11: update() and render() reach only the scene at currentIndex; a scene
\* that is not current receives none from the frame driver, from the
\* forwarding methods of the registry or from a resize event of the window.
C11_OnlyCurrentIsLive ==
    [][\A i \in 1..Len(calls') :
         calls'[i].fn \in LiveFns
         => calls'[i].scene = Current(scenes', currentIndex')]_vars

\* C12: a disposed scene is never the current scene again, receives no later
\* resize(), update() or render(), and is not disposed a second time.
C12_DisposedNeverReactivated ==
    /\ [](Current(scenes, currentIndex) \notin disposed)
    /\ [][\A i \in 1..Len(calls') :
            /\ calls'[i].fn = "dispose" => calls'[i].scene \notin disposed
            /\ calls'[i].fn \in LiveFns => calls'[i].scene \notin disposed']_vars

\* the step is setScene(index), called directly or through next() or prev()
SetSceneCalled(index) ==
    \E op \in {"setScene", "next", "prev"} : DoSetScene(op, index)

\* C13: a setScene(i) that switches away from a registered scene calls
\* dispose() on the outgoing scene, makes i the current index, calls resize()
\* on the incoming scene and then notifies the listener, if one is set, once
\* with (i, count).
C13_SwitchOrder ==
    [][\A index \in SceneArgs :
         (/\ ValidIndex
          /\ SetSceneCalled(index)
          /\ index.n >= 0 /\ index.n < Count(scenes)
          /\ index # currentIndex)
         => /\ currentIndex' = index
            /\ calls' =
                 << Call("dispose", scenes[currentIndex.n + 1], Num(0), 0),
                    Call("resize", scenes[index.n + 1], Num(0), 0) >>
                 \o (IF onSceneChange
                     THEN << Call("notify", Undefined, index, Count(scenes)) >>
                     ELSE << >>)]_vars

\* a direct setScene has switched scenes and notified the listener last
C13_Witness ==
    /\ lastOp.op = "setScene"
    /\ onSceneChange
    /\ Len(calls) = 3
    /\ calls[2].fn = "resize" /\ calls[2].scene = Current(scenes, currentIndex)
    /\ calls[3].fn = "notify" /\ calls[3].index = currentIndex
    /\ calls[3].total = Count(scenes)

\* C14: a new registry has index 0 and has fired nothing; register() leaves
\* currentIndex alone, calls no dispose() or resize() and notifies nobody, so
\* that on a new registry the first registered scene is the current one.
C14_InitialActivation ==
    /\ (currentIndex = Num(0) /\ calls = << >> /\ disposed = {})
    /\ [][Register =>
            /\ currentIndex' = currentIndex
            /\ calls' = << >>
            /\ disposed' = disposed
            /\ (currentIndex = Num(0) => Current(scenes', currentIndex') = scenes'[1])]_vars

\* a second scene was registered with a listener set: the first is still current
C14_Witness ==
    /\ lastOp.op = "register"
    /\ Count(scenes) >= 2
    /\ onSceneChange
    /\ currentIndex = Num(0)
    /\ Current(scenes, currentIndex) = 1

(***************************************************************************)
(* Properties of the frame driver and of the audio inputs.                 *)
(***************************************************************************)
\* the step is a frame: draw(analyser) ran
Drawn == lastOp'.op = "draw" /\ Len(log') = Len(log) + 1

\* the step is an audioInputChange(source) call
InputChanged == numAnalysers' = numAnalysers + 1

\* C15: a frame calls analyser.update(delta), then update(delta, result) of
\* the current scene with the result of that very call, complete, and the same
\* delta, then render() of the current scene, each once and in that order.
C15_FrameOrder ==
    [][Drawn =>
         LET cur == Current(scenes, currentIndex)
             delta == frame'[1].time
             r == UpdateResult(onset, threshold, peaking, prevFlux, curSpectrum', delta)
         IN  /\ Len(frame') = 3
             /\ frame'[1].fn = "analyser.update"
             /\ frame'[1].target = animationLoop
             /\ frame'[1].audio = r.onset
             /\ onset' = r.onset
             /\ frame'[2] = FrameCall("update", cur, delta, frame'[1].audio)
             /\ frame'[3].fn = "render"
             /\ frame'[3].target = cur]_vars

\* a frame was drawn for the second scene with a result that differs from the
\* one the analyser held before the frame
C15_Witness ==
    /\ lastOp.op = "draw"
    /\ Len(frame) = 3
    /\ frame[2].target = 2
    /\ frame[2].audio = onset
    /\ frame[2].audio # NoAudio

\* the position of the first step of ss that is op on node, 0 when there is none
RECURSIVE StepIndex(_, _, _, _)
StepIndex(ss, op, node, i) ==
    IF i > Len(ss) THEN 0
    ELSE IF ss[i].op = op /\ ss[i].node = node THEN i
    ELSE StepIndex(ss, op, node, i + 1)

\* C16: audioInputChange stops the running frame callback before it connects
\* the source to the new analyser and starts the new loop; whatever the order
\* in which the handlers complete, the only loop is the one of the analyser
\* constructed last, and that is the analyser every frame updates.
C16_OneLoopOneAnalyser ==
    /\ [](animationLoop \in { 0, numAnalysers })
    /\ [][InputChanged =>
            LET stop == StepIndex(steps', "setAnimationLoop", 0, 1)
                attach == StepIndex(steps', "connect", numAnalysers', 1)
                start == StepIndex(steps', "setAnimationLoop", numAnalysers', 1)
            IN  /\ stop > 0 /\ stop < attach /\ attach < start
                /\ \A i \in 1..Len(steps') :
                     (steps'[i].op = "setAnimationLoop" /\ steps'[i].node # 0) => i = start
                /\ steps'[attach].source = curSource'
                /\ animationLoop' = numAnalysers']_vars
    /\ [][Drawn => frame'[1].target = numAnalysers]_vars

\* an acquisition completed after a preview click that came while it was in
\* flight: the loop runs on the second analyser
C16_Witness ==
    /\ numAnalysers = 2
    /\ animationLoop = 2
    /\ curSource # PreviewSource
    /\ pending = {}
    /\ \E i \in 1..Len(steps) : steps[i] = Step("disconnect", PreviewSource, 0)

\* the analysers node is connected to
AnalysersOf(node) == { e[2] : e \in { d \in edges : d[1] = node /\ d[2] # Destination } }

\* C17: after any sequence of audioInputChange calls the attached source is
\* connected to exactly one analyser and no other source is connected to an
\* analyser.
C17_NoEdgeAccumulation ==
    curSource # 0 =>
        /\ Cardinality(AnalysersOf(curSource)) = 1
        /\ \A e \in edges : e[2] # Destination => e[1] = curSource

\* C18: a frame runs only with a source attached and connected to the
\* analyser of the loop, so none runs before the first audioInputChange;
\* audioError starts no loop, constructs no analyser and connects nothing.
C18_NoFrameWithoutSource ==
    /\ [](animationLoop # 0 => (curSource # 0 /\ << curSource, animationLoop >> \in edges))
    /\ [](numAnalysers = 0 => (animationLoop = 0 /\ log = << >> /\ frame = << >>))
    /\ [][Drawn => (numAnalysers > 0 /\ curSource # 0
                    /\ << curSource, frame'[1].target >> \in edges)]_vars
    /\ [][(steps' = << Step("audioError", 0, 0) >> /\ overlay' = "flex"
           /\ pending' # pending)
          => (/\ animationLoop' = animationLoop
              /\ numAnalysers' = numAnalysers
              /\ edges' = edges
              /\ curSource' = curSource
              /\ log' = log)]_vars

\* an acquisition failed before any source was attached: no loop, no analyser
C18_Witness ==
    /\ steps = << Step("audioError", 0, 0) >>
    /\ numRequests > 0
    /\ numAnalysers = 0
    /\ animationLoop = 0
    /\ overlay = "flex"

(***************************************************************************)
(* Properties of the scenes.                                               *)
(***************************************************************************)
\* C19: render(), called through the registry or by a resize, changes no
\* animation state of the scene and leaves currentIndex alone.
C19_RenderMutatesNothing ==
    [][lastOp'.op \in { "render", "resize", "window.resize" }
         => (anim' = anim /\ currentIndex' = currentIndex)]_vars

\* the scene was rendered after updates that moved it and changed its palette
C19_Witness ==
    /\ lastOp.op = "render"
    /\ Len(calls) = 1 /\ calls[1].fn = "render"
    /\ anim.time > 0
    /\ lastChangeAt >= 0

\* the step is an update() with audio.event = true
EventFrame == lastEventAt' = now' /\ now' # now

\* the cooldowns as the claim gives them
ClaimedCooldown(kind) == IF kind = "tunnel" THEN Fin(1, 10) ELSE Fin(3, 20)

\* C20 as stated: in TunnelScene (0.1 s), TerrainScene and NeonGridScene
\* (0.15 s) the second of two event frames closer together than the cooldown
\* changes no visual state (palette index, colours, rotation direction).
C20_SecondEventChangesNothing ==
    [][(/\ EventFrame
        /\ anim.kind \in { "tunnel", "terrain", "neon" }
        /\ lastEventAt >= 0
        /\ JLess(Seconds(now' - lastEventAt), ClaimedCooldown(anim.kind)))
       => (/\ anim'.dir = anim.dir
           /\ anim'.palette = anim.palette
           /\ anim'.light = anim.light)]_vars

\* C20, amended: in TunnelScene (rotation direction, 0.1 s) and TerrainScene
\* (palette, 0.15 s) two changes of the debounced state are more than the
\* cooldown apart, so of two event frames closer together than the cooldown at
\* most one changes it; the event frame that follows a change never changes
\* it, in NeonGridScene (cooldown 0) either.
C20_Debounce ==
    /\ [][(/\ anim.kind \in { "tunnel", "terrain" }
           /\ lastChangeAt >= 0
           /\ lastChangeAt' # lastChangeAt)
          => JGreater(Seconds(now' - lastChangeAt), Cooldown(anim.kind))]_vars
    /\ [][(/\ EventFrame
           /\ anim.kind \in { "tunnel", "terrain", "neon" }
           /\ lastChangeAt >= 0
           /\ lastEventAt = lastChangeAt)
          => Debounced(anim') = Debounced(anim)]_vars

\* the rotation direction was switched a second time, back to the first one
C20_Witness ==
    /\ anim.kind = "tunnel"
    /\ lastChangeAt = now
    /\ anim.dir = 1


\* ---------------------------------------------------------------------
\* C21
\* ---------------------------------------------------------------------

\* the animation state the claim lists: scroll offset, tunnel position,
\* rotation, star position, material colour, scale
Visual(a) == << a.offset, a.pos, a.rotation, a.star, a.color, a.scale >>

\* an OnsetResult with the flux of level l and no event
Quiet(l) == [flux |-> l.flux, meanFlux |-> l.meanFlux, event |-> FALSE]

\* update(d1, r) followed by update(d2, r), both at time t (no event: the
\* time and the coin are not read)
TwoUpdates(a, d1, d2, r, t) ==
    SceneUpdateResult(SceneUpdateResult(a, d1, r, FALSE, t), d2, r, FALSE, t)

\* C21: in every reachable state of a scene, for every OnsetResult r with
\* event = false, update(d1, r) followed by update(d2, r) leaves the same
\* animation state as the single update(d1 + d2, r).
C21_FrameRateIndependent ==
    \A l \in AudioLevels, d1 \in FrameGaps, d2 \in FrameGaps :
        Visual(TwoUpdates(anim, d1, d2, Quiet(l), now))
            = Visual(SceneUpdateResult(anim, d1 + d2, Quiet(l), FALSE, now))


\* ---------------------------------------------------------------------
\* C22
\* ---------------------------------------------------------------------

\* Resize rendering before the renderer and the camera are updated
ResizeRendersFirst(scene) ==
    << [scene |-> scene, op |-> "render"],
       [scene |-> scene, op |-> "setSize"],
       [scene |-> scene, op |-> "aspect"],
       [scene |-> scene, op |-> "updateProjectionMatrix"] >>

\* resize() of a scene, the same in every scene: renderer.setSize(...),
\* camera.aspect = ..., camera.updateProjectionMatrix(), this.render()
Resize(scene) ==
    << [scene |-> scene, op |-> "setSize"],
       [scene |-> scene, op |-> "aspect"],
       [scene |-> scene, op |-> "updateProjectionMatrix"],
       [scene |-> scene, op |-> "render"] >>

\* what a call made on a scene does to its renderer and camera
SceneSteps(call) ==
    IF call.fn = "resize" THEN Resize(call.scene)
    ELSE IF call.fn = "render" THEN << [scene |-> call.scene, op |-> "render"] >>
    ELSE << >>

\* the positions of op in a list of steps
Positions(steps_, op) == { k \in 1..Len(steps_) : steps_[k].op = op }

\* C22: every resize() call made on a scene renders that scene exactly once,
\* after the renderer size and the camera aspect have been set, and the step
\* that makes the call changes no animation state.
C22_ResizeRendersOnce ==
    [][\A i \in 1..Len(calls') :
         calls'[i].fn = "resize" =>
           LET o == SceneSteps(calls'[i])
           IN  /\ Cardinality(Positions(o, "render")) = 1
               /\ \A k \in 1..Len(o) : o[k].scene = calls'[i].scene
               /\ \A r \in Positions(o, "render") :
                    /\ \E k \in Positions(o, "setSize") : k < r
                    /\ \E k \in Positions(o, "aspect") : k < r
               /\ anim' = anim]_vars

\* a window resize reaches a scene that has been animated: its own listener
\* and the manager both call resize()
C22_Witness ==
    /\ lastOp.op = "window.resize"
    /\ Len(calls) = 2
    /\ \A i \in 1..Len(calls) : calls[i].fn = "resize"
    /\ anim.time > 0
    /\ anim.offset # Num(0)


\* ---------------------------------------------------------------------
\* C25
\* ---------------------------------------------------------------------

\* C25: the palette (colour) index of CubeScene, TerrainScene and
\* NeonGridScene stays within 0..length-1 and rotDir of TunnelScene is +1 or
\* -1; the index changes only in an update whose audio.event is true, by +1
\* modulo the palette length, and rotDir only flips sign, in such an update;
\* an update with event = false changes neither.
C25_EventDrivenOnly ==
    /\ [](/\ anim.palette \in 0..(NumPalettes(anim.kind) - 1)
          /\ anim.dir \in { 1, 0 - 1 })
    /\ [][/\ anim'.palette # anim.palette
               => /\ EventFrame /\ lastAudio'.event
                  /\ anim.kind \in { "cube", "terrain", "neon" }
                  /\ anim'.palette = (anim.palette + 1) % NumPalettes(anim.kind)
          /\ anim'.dir # anim.dir
               => /\ EventFrame /\ lastAudio'.event
                  /\ anim.kind = "tunnel"
                  /\ anim'.dir = 0 - anim.dir]_vars

\* the colour index of the cube has gone round the whole palette
C25_Witness ==
    /\ anim.kind = "cube"
    /\ Len(anim.color) = NumPalettes("cube")
    /\ anim.palette = 0

\* ---------------------------------------------------------------------
\* C26
\* ---------------------------------------------------------------------

\* C26: after update(dt, r) the rotation speed / scroll speed, the uniforms
\* uFlux and uMeanFlux, the cube scale 1 + 0.3 * meanFlux and the tunnel light
\* intensity min(0.1 + 4 * meanFlux, 1) are given by the r of this frame
\* alone, whatever the earlier frames carried.
C26_DerivedFromCurrentFrame ==
    now > 0 =>
      LET f == lastAudio.flux
          mf == lastAudio.meanFlux
      IN  /\ anim.kind = "cube"
               => /\ anim.speed = JAdd(Fin(2, 25), JMul(Num(2), f))
                  /\ anim.scale = JAdd(Num(1), JMul(Fin(3, 10), mf))
          /\ anim.kind = "tunnel"
               => /\ anim.speed = JMul(Num(16000), f)
                  /\ anim.intensity =
                       (IF JLess(JAdd(Fin(1, 10), JMul(Num(4), mf)), Num(1))
                        THEN JAdd(Fin(1, 10), JMul(Num(4), mf)) ELSE Num(1))
          /\ anim.kind = "terrain"
               => /\ anim.speed = JAdd(Num(10), JMul(Num(3200), f))
                  /\ anim.uFlux = f
                  /\ anim.uMeanFlux = mf
          /\ anim.kind = "neon"
               => /\ anim.speed = JMul(Num(4000), f)
                  /\ anim.uFlux = f

\* a silent frame of the tunnel after frames that carried flux: the orb has
\* turned, the light is at its base intensity
C26_Witness ==
    /\ anim.kind = "tunnel"
    /\ now > 0
    /\ lastAudio.flux = Num(0)
    /\ anim.rotation # Num(0)
    /\ anim.intensity = Fin(1, 10)


\* ---------------------------------------------------------------------
\* C23
\* ---------------------------------------------------------------------

\* C23: an update() whose resulting meanFlux is 0 stores the flux of the
\* snapshot, the mean and the shifted window, and leaves threshold, peaking
\* and event as they were before the call.
C23_SilentFrameSkipsDecision ==
    [][(Updated /\ onset'.meanFlux = Num(0))
         => /\ onset'.flux = SpectrumFlux(curSpectrum')
            /\ prevFlux' = Tail(prevFlux) \o << onset'.flux >>
            /\ onset'.meanFlux = MeanFlux(prevFlux')
            /\ threshold' = threshold
            /\ peaking' = peaking
            /\ onset'.event = onset.event]_vars

\* the window has emptied again after a peak
C23_Witness ==
    /\ Len(log) >= 5
    /\ Last(log).branch = "silent"
    /\ \E i \in 1..Len(log) : log[i].branch = "above"
    /\ onset.meanFlux = Num(0)


\* ---------------------------------------------------------------------
\* C24
\* ---------------------------------------------------------------------

\* a >= b ? a : b
JMax(a, b) == IF JGeq(a, b) THEN a ELSE b

\* what the claim gives for threshold after a frame with meanFlux > 0 that
\* found threshold thr and ran with deltaTime time
ClaimedThreshold(thr, flux, meanFlux, time) ==
    LET ratio == JDiv(flux, meanFlux)
        start == IF JGreater(flux, JMul(meanFlux, thr)) THEN ratio ELSE thr
    IN  JMax(ThresholdFloor,
             JSub(start, JDiv(JDiv(JMul(time, start), ratio), Fin(3, 2))))

\* C24: on a frame with meanFlux > 0 and ratio = flux / meanFlux, if
\* flux > meanFlux * threshold then ratio exceeds the old threshold, peaking
\* becomes true and the new threshold is max(1.025, ratio - deltaTime / 1.5);
\* in both branches the new threshold is the old one (ratio in the peak
\* branch) less (deltaTime * threshold) / ratio / 1.5, and is at least 1.025.
C24_RatchetAndDecay ==
    [][(Updated /\ JGreater(onset'.meanFlux, Num(0)))
         => LET flux == onset'.flux
                mean == onset'.meanFlux
                ratio == JDiv(flux, mean)
            IN  /\ JGreater(flux, JMul(mean, threshold))
                     => /\ JGreater(ratio, threshold)
                        /\ peaking'
                        /\ \E time \in DeltaTimes :
                             threshold' = JMax(ThresholdFloor,
                                               JSub(ratio, JDiv(time, Fin(3, 2))))
                /\ \E time \in DeltaTimes :
                     threshold' = ClaimedThreshold(threshold, flux, mean, time)
                /\ JGeq(threshold', ThresholdFloor)]_vars


\* ---------------------------------------------------------------------
\* C28
\* ---------------------------------------------------------------------

\* C28: after every update flux <= 4 * meanFlux, and in every reachable
\* state of the analyser 1.025 <= threshold <= 4.
C28_ThresholdBounded ==
    /\ JLeq(onset.flux, JMul(Num(WindowSize), onset.meanFlux))
    /\ JLeq(ThresholdFloor, threshold)
    /\ JLeq(threshold, Num(4))


\* ---------------------------------------------------------------------
\* C29
\* ---------------------------------------------------------------------

\* C29: in every reachable state of the analyser with meanFlux = 0, the
\* initial one included, peaking and event are false; and between a frame
\* that set peaking = true and a later frame whose meanFlux is 0 there is a
\* frame that reported event = true.
C29_NoHangingPeak ==
    /\ onset.meanFlux = Num(0) => (~peaking /\ ~onset.event)
    /\ \A i \in 1..Len(log), j \in 1..Len(log) :
         (i < j /\ log[i].branch = "above" /\ log[j].branch = "silent")
           => \E k \in (i + 1)..(j - 1) : log[k].event

\* silence after a peak: the frame after the peak reported the event, and the
\* window has emptied since
C29_Witness ==
    /\ onset.meanFlux = Num(0)
    /\ \E i \in 1..(Len(log) - 1) :
         /\ log[i].branch = "above"
         /\ log[i + 1].branch = "below"
         /\ log[i + 1].event


\* ---------------------------------------------------------------------
\* C30
\* ---------------------------------------------------------------------

\* C30: with exactly one registered scene next() and prev() change nothing:
\* currentIndex is and stays 0, no scene is disposed or resized and the
\* change listener is not notified.
C30_SingleSceneNoOp ==
    [][(Count(scenes) = 1 /\ lastOp'.op \in { "next", "prev" })
         => /\ currentIndex = Num(0)
            /\ currentIndex' = Num(0)
            /\ calls' = << >>
            /\ disposed' = disposed]_vars


\* ---------------------------------------------------------------------
\* C27
\* ---------------------------------------------------------------------

\* C27: from any reachable state of the analyser, a steady input (every
\* frame with the same positive flux and deltaTime > 0) brings the threshold
\* to the floor 1.025 after finitely many frames, and it stays there.
C27_ThresholdRelaxes == <>[](threshold = ThresholdFloor)

====
